---------------------------- MODULE Spec2Model ----------------------------
(***************************************************************************)
(* The worker event loop of components/script/dom/                         *)
(* abstractworkerglobalscope.rs (run_worker_event_loop) together with the   *)
(* channels it reads, the task queue it drains and the caller that         *)
(* re-invokes it.                                                          *)
(*                                                                         *)
(* Beside it, two smaller pieces: ScriptPort::recv on a worker's receiver  *)
(* (same file), and the headless event loop and the event-loop guard of    *)
(* ports/servoshell/desktop/events_loop.rs.                                *)
(*                                                                         *)
(* One invocation is: the initial multiplexed wait (select!), the timer    *)
(* dispatch, the drain loop that grows the batch `sequential`, the         *)
(* processing loop over the batch, and the trailing GC checkpoint.         *)
(* Producers on other threads append to the channels at any moment.        *)
(***************************************************************************)
EXTENDS Naturals, Sequences, FiniteSets

(* ----------------------------- bounds ---------------------------------- *)

\* Total number of messages the producers send, over all channels.
MaxMsgs == 3

\* Number of channels whose senders may all be dropped in one behaviour.
MaxDisconnects == 1

\* Number of calls of HeadlessEventLoopWaker::wake.
MaxWakes == 5

\* Number of threads that create event-loop guards.
MaxThreads == 2

\* The task queue's throttling bound: non-priority tasks admitted to the
\* buffer within one iteration of the event loop.  Two tasks enqueued
\* together are drained together (scenario A), so the bound is at least 2.
PerIterationMax == 2

(* ----------------------------- state ----------------------------------- *)

VARIABLES
    control,            \* control channel: messages sent and not yet received
    port,               \* worker-task channel read by the task queue
    devtools,           \* devtools channel
    timer,              \* the timer scheduler's wait channel holds a wake
    disc,               \* channels whose senders have all been dropped
    hasDevtools,        \* scope.devtools_receiver() is Some
    closing,            \* WorkerGlobalScope's closing flag
    msg_queue,          \* task queue: buffer the event loop pops from
    throttled,          \* task queue: non-priority tasks held back
    taken_task_counter, \* task queue: tasks admitted in this iteration
    pc,                 \* position of the worker thread
    sequential,         \* the batch of the current invocation
    idx,                \* index of the next event of the batch to process
    log,                \* calls made by the current invocation, in order
    outcome,            \* how the last invocation ended
    delivered,          \* message events passed to handle_event, over all invocations
    dropped,            \* batch events discarded by a shutdown return
    sent,               \* per channel, the number of messages sent on it
    closedInWait,       \* the flag was set while the worker was in its initial wait
    queuedAtClosing,    \* task ids inside the task queue at that moment
    receiver,           \* ScriptPort: the Receiver<DedicatedWorkerScriptMsg>'s buffer
    receiverGone,       \* ScriptPort: every sender of the receiver was dropped
    recvArg,            \* ScriptPort: what self.recv() gave the last call
    recvResult,         \* ScriptPort: what the last call of recv came to
    flag,               \* headless loop: the signalling flag in the mutex
    appPc,              \* headless loop: position of run_app's loop
    notified,           \* headless loop: the waiting thread was notified
    wokeAwake,          \* headless loop: wake() ran outside a wait since sleep last looked
    wakes,              \* headless loop: calls of wake() so far
    CURRENT_EVENT_LOOP, \* per thread, the thread-local slot
    guards,             \* per thread, the EventLoopGuard values alive
    threadPc,           \* per thread, running or panicked
    lastWith            \* per thread, the last call of with_current_event_loop

\* run_worker_event_loop and what it works on.
worker == <<control, port, devtools, timer, disc, hasDevtools, closing,
            msg_queue, throttled, taken_task_counter, pc, sequential, idx,
            log, outcome, delivered, dropped, sent, closedInWait,
            queuedAtClosing>>

\* ScriptPort for Receiver<DedicatedWorkerScriptMsg>.
scriptport == <<receiver, receiverGone, recvArg, recvResult>>

\* The headless EventsLoop and its waker.
headless == <<flag, appPc, notified, wokeAwake, wakes>>

\* EventLoopGuard and with_current_event_loop.
guardslot == <<CURRENT_EVENT_LOOP, guards, threadPc, lastWith>>

\* What a step of the worker event loop leaves alone.
others == <<scriptport, headless, guardslot>>

vars == <<worker, scriptport, headless, guardslot>>

chans    == <<control, port, devtools, timer>>
queue    == <<msg_queue, throttled, taken_task_counter>>
closinfo == <<closing, closedInWait, queuedAtClosing>>
history  == <<delivered, dropped>>

Channels == {"control", "task", "devtools"}

\* A message is identified by its channel and its sequence number on that
\* channel (id); prio tells a task of a priority task source from one of a
\* throttled task source.
\* DedicatedWorkerScriptMsg::WakeUp: carries no task.
WakeUp == [id |-> 0, src |-> "wakeup", prio |-> FALSE]

IsWakeUp(m) == m.src = "wakeup"

Msg(i, s, p) == [id |-> i, src |-> s, prio |-> p]

(* --------------------------- conversions ------------------------------- *)

from_control_msg(m)  == [kind |-> "FromControl",  id |-> m.id, prio |-> FALSE]
from_worker_msg(m)   == [kind |-> "FromTask",     id |-> m.id, prio |-> m.prio]
from_devtools_msg(m) == [kind |-> "FromDevtools", id |-> m.id, prio |-> FALSE]
from_timer_msg       == [kind |-> "TimerFired",   id |-> 0,    prio |-> FALSE]

Entry(o, e, k) == [op |-> o, ev |-> e, ok |-> k]

(* ----------------------------- helpers --------------------------------- *)

Min(a, b) == IF a < b THEN a ELSE b

Range(s) == {s[i] : i \in 1..Len(s)}

Ids(s) == {s[i].id : i \in 1..Len(s)}

TotalSent == sent["control"] + sent["task"] + sent["devtools"]

Prefix(s, n) == SubSeq(s, 1, n)

Suffix(s, n) == SubSeq(s, n + 1, Len(s))

IsPrio(m) == m.prio

NotPrio(m) == ~m.prio

NotWake(m) == ~IsWakeUp(m)

(* ---------------------------- task queue ------------------------------- *)

\* TaskQueue::take_tasks(first_msg): pull everything available on the port
\* into the buffer; priority tasks go straight in, non-priority tasks are
\* admitted up to PerIterationMax per iteration and the excess is held back
\* (behind the tasks already held back).  While tasks are held back the
\* queue leaves a wake-up on its port so that the ready signal fires again.
take_tasks(first_msg, p, q, th, cnt) ==
    LET incoming == (IF IsWakeUp(first_msg) THEN <<>> ELSE <<first_msg>>)
                        \o SelectSeq(p, NotWake)
        priority == SelectSeq(incoming, IsPrio)
        waiting  == th \o SelectSeq(incoming, NotPrio)
        room     == IF cnt < PerIterationMax THEN PerIterationMax - cnt ELSE 0
        n        == Min(room, Len(waiting))
    IN  [port      |-> IF n < Len(waiting) THEN <<WakeUp>> ELSE <<>>,
         msg_queue |-> q \o priority \o Prefix(waiting, n),
         throttled |-> Suffix(waiting, n),
         counter   |-> cnt + n]

\* TaskQueue::take_tasks_and_recv(): drain, then pop; "empty" when the
\* buffer holds nothing.
take_tasks_and_recv(p, q, th, cnt) ==
    LET t == take_tasks(WakeUp, p, q, th, cnt)
    IN  [port      |-> t.port,
         msg_queue |-> IF t.msg_queue = <<>> THEN <<>> ELSE Tail(t.msg_queue),
         throttled |-> t.throttled,
         counter   |-> t.counter,
         ok        |-> t.msg_queue # <<>>,
         ev        |-> IF t.msg_queue = <<>> THEN WakeUp ELSE Head(t.msg_queue)]

\* The task ids held anywhere inside the task queue.
QueuedTaskIds == (Ids(port) \cup Ids(msg_queue) \cup Ids(throttled)) \ {0}

(* ------------------------ run_worker_event_loop ------------------------ *)

\* A select! arm that returns from the function on a disconnected channel.
unwrap_or_return(ok) == IF ok THEN "value" ELSE "return"

\* Result::unwrap on what a select! arm received.
unwrap(ok) == IF ok THEN "value" ELSE "panic"

\* A loop that leaves the completed timers alone.
dispatch_skipped(l) == l

\* scope.timer_scheduler().dispatch_completed_timers(), right after select!.
dispatch_completed_timers(l) == Append(l, Entry("dispatch", 0, TRUE))

\* A drain loop that pops a message and forgets it.
push_lost(batch, ev) == batch

\* A drain loop that inserts at the head of the batch.
push_front(batch, ev) == <<ev>> \o batch

\* sequential.push(event)
push(batch, ev) == Append(batch, ev)

\* A drain loop that never looks at the closing flag.
drain_ignores_closing(c) == TRUE

\* The drain loop's condition: while !scope.is_closing().
drain_continues(c) == ~c

\* A loop that ignores the handler's result.
handler_result_ignored(r) == TRUE

\* if !worker_scope.handle_event(event, can_gc) { return; }
handler_continues(r) == r

\* A loop body that forgets the microtask checkpoint.
post_event_without_checkpoint(l, i, g) ==
    IF g
    THEN l \o <<Entry("guard_acquire", i, TRUE), Entry("guard_release", i, TRUE)>>
    ELSE l

\* A loop body that binds the guard to `_`: it is dropped at once, before
\* the microtask checkpoint.
post_event_guard_dropped_early(l, i, g) ==
    LET a == IF g
             THEN l \o <<Entry("guard_acquire", i, TRUE),
                         Entry("guard_release", i, TRUE)>>
             ELSE l
    IN  Append(a, Entry("microtask", i, TRUE))

\* Step 6 and the microtask checkpoint of one event: the optional
\* AutoWorkerReset guard lives from handle_worker_post_event to the end of
\* the loop body, around perform_a_microtask_checkpoint.
post_event(l, i, g) ==
    LET a == IF g THEN Append(l, Entry("guard_acquire", i, TRUE)) ELSE l
        b == Append(a, Entry("microtask", i, TRUE))
    IN  IF g THEN Append(b, Entry("guard_release", i, TRUE)) ELSE b

\* A GC checkpoint inside the loop as well as after it.
gc_checkpoint_twice(l) == l \o <<Entry("gc", 0, TRUE), Entry("gc", 0, TRUE)>>

\* perform_a_dom_garbage_collection_checkpoint(), after the for loop.
gc_checkpoint(l) == Append(l, Entry("gc", 0, TRUE))

\* The outer loop re-enters run_worker_event_loop while the closing flag is
\* false.
caller_reinvokes(c) == ~c

\* The function returns with outcome o.  The caller either calls it again
\* (select! then calls task_queue.select(), which resets the counter) or
\* sees the closing flag and ends the worker thread.
Return(o) ==
    /\ outcome' = o
    /\ pc' = IF caller_reinvokes(closing) THEN "wait" ELSE "exited"
    /\ taken_task_counter' = IF caller_reinvokes(closing) THEN 0 ELSE taken_task_counter

\* A devtools receiver replaced, when absent, by a channel without senders:
\* always ready, with an error.
unwrap_or_closed(has, ready) == IF has THEN ready ELSE TRUE

\* scope.devtools_receiver().unwrap_or(&never): the worker's devtools
\* channel, or a channel that is never ready.
unwrap_or_never(has, ready) == has /\ ready

\* The arms of select!, in the order they are written.
ControlArm  == 1
TaskArm     == 2
DevtoolsArm == 3
TimerArm    == 4

\* The arms whose receive operation can complete now: a message is
\* buffered or the channel has lost its senders.
ReadyArms ==
    {a \in {ControlArm} : control # <<>> \/ "control" \in disc}
        \cup {a \in {TaskArm} : port # <<>> \/ "task" \in disc}
        \cup {a \in {DevtoolsArm} :
                  unwrap_or_never(hasDevtools,
                                  devtools # <<>> \/ "devtools" \in disc)}
        \cup {a \in {TimerArm} : timer}

\* A select! that takes the first ready arm in the order written.
select_first_ready(arm, ready) ==
    arm \in ready /\ \A a \in ready : arm <= a

\* select!: when several arms are ready, any one of them may be taken.
select_picks(arm, ready) == arm \in ready

\* A drain loop that unwraps the devtools poll: an empty channel panics
\* too.
try_recv_err_always_unwrapped(disconnected) == "panic"

\* A drain loop that unwraps the devtools poll: a disconnected channel
\* panics.
try_recv_err_unwrapped(disconnected) == IF disconnected THEN "panic" ELSE "break"

\* Err(_) => break: an empty and a disconnected devtools channel alike
\* end the drain loop.
try_recv_err(disconnected) == "break"

\* What a poll found of the senders of channel c: 1 when they are all gone.
Gone(c) == IF c \in disc THEN 1 ELSE 0

\* What follows a select! arm: the unwrap of the received value, then the
\* timer dispatch and the one-element batch; a failed unwrap panics.
Resolve(arm, ok, ev) ==
    LET u == unwrap(ok)
        l == <<Entry("select", arm, ok)>>
    IN  /\ idx' = 1
        /\ IF u = "value"
           THEN /\ pc' = "drain"
                /\ sequential' = <<ev>>
                /\ log' = dispatch_completed_timers(l)
                /\ outcome' = "none"
           ELSE /\ pc' = IF u = "panic" THEN "panicked" ELSE "wait"
                /\ sequential' = <<>>
                /\ log' = l
                /\ outcome' = IF u = "panic" THEN "panic" ELSE "normal"

\* recv(worker_scope.control_receiver()) -> msg => from_control_msg(msg.unwrap())
SelectControl ==
    /\ pc = "wait"
    /\ select_picks(ControlArm, ReadyArms)
    /\ IF control # <<>>
       THEN /\ Resolve(ControlArm, TRUE, from_control_msg(Head(control)))
            /\ control' = Tail(control)
       ELSE /\ Resolve(ControlArm, FALSE, from_timer_msg)
            /\ control' = control
    /\ UNCHANGED <<port, devtools, timer, disc, hasDevtools, queue, closinfo,
                   history, sent>>
    /\ UNCHANGED others

\* recv(task_queue.select()) -> msg => { take_tasks(msg.unwrap());
\*                                       from_worker_msg(task_queue.recv().unwrap()) }
SelectTask ==
    /\ pc = "wait"
    /\ select_picks(TaskArm, ReadyArms)
    /\ IF port # <<>>
       THEN LET t == take_tasks(Head(port), Tail(port), msg_queue, throttled,
                                taken_task_counter)
            IN  /\ port' = t.port
                /\ throttled' = t.throttled
                /\ taken_task_counter' = t.counter
                /\ IF t.msg_queue # <<>>
                   THEN /\ Resolve(TaskArm, TRUE, from_worker_msg(Head(t.msg_queue)))
                        /\ msg_queue' = Tail(t.msg_queue)
                   ELSE /\ Resolve(TaskArm, FALSE, from_timer_msg)
                        /\ msg_queue' = t.msg_queue
       ELSE /\ Resolve(TaskArm, FALSE, from_timer_msg)
            /\ UNCHANGED <<port, queue>>
    /\ UNCHANGED <<control, devtools, timer, disc, hasDevtools, closinfo,
                   history, sent>>
    /\ UNCHANGED others

\* recv(devtools_receiver) -> msg => from_devtools_msg(msg.unwrap());
\* without a devtools channel the arm waits on never().
SelectDevtools ==
    /\ pc = "wait"
    /\ select_picks(DevtoolsArm, ReadyArms)
    /\ IF devtools # <<>>
       THEN /\ Resolve(DevtoolsArm, TRUE, from_devtools_msg(Head(devtools)))
            /\ devtools' = Tail(devtools)
       ELSE /\ Resolve(DevtoolsArm, FALSE, from_timer_msg)
            /\ devtools' = devtools
    /\ UNCHANGED <<control, port, timer, disc, hasDevtools, queue, closinfo,
                   history, sent>>
    /\ UNCHANGED others

\* recv(scope.timer_scheduler().wait_channel()) -> _ => from_timer_msg()
SelectTimer ==
    /\ pc = "wait"
    /\ select_picks(TimerArm, ReadyArms)
    /\ Resolve(TimerArm, TRUE, from_timer_msg)
    /\ timer' = FALSE
    /\ UNCHANGED <<control, port, devtools, disc, hasDevtools, queue, closinfo,
                   history, sent>>
    /\ UNCHANGED others

\* while !scope.is_closing(): the flag is set, the loop is left.
DrainClosing ==
    /\ pc = "drain"
    /\ ~drain_continues(closing)
    /\ pc' = "process"
    /\ log' = Append(log, Entry("closing_seen", 0, TRUE))
    /\ UNCHANGED <<chans, disc, hasDevtools, queue, closinfo, sequential, idx,
                   outcome, history, sent>>
    /\ UNCHANGED others

\* Ok(ev) => sequential.push(T::from_worker_msg(ev))
DrainTask ==
    /\ pc = "drain"
    /\ drain_continues(closing)
    /\ LET r == take_tasks_and_recv(port, msg_queue, throttled, taken_task_counter)
       IN  /\ r.ok
           /\ port' = r.port
           /\ msg_queue' = r.msg_queue
           /\ throttled' = r.throttled
           /\ taken_task_counter' = r.counter
           /\ sequential' = push(sequential, from_worker_msg(r.ev))
    /\ log' = Append(log, Entry("poll_task", Gone("task"), TRUE))
    /\ UNCHANGED <<control, devtools, timer, disc, hasDevtools, closinfo, pc,
                   idx, outcome, history, sent>>
    /\ UNCHANGED others

\* Err(_) => match devtools_receiver.try_recv() { Ok(message) => push, .. }
DrainDevtools ==
    /\ pc = "drain"
    /\ drain_continues(closing)
    /\ LET r == take_tasks_and_recv(port, msg_queue, throttled, taken_task_counter)
       IN  /\ ~r.ok
           /\ port' = r.port
           /\ msg_queue' = r.msg_queue
           /\ throttled' = r.throttled
           /\ taken_task_counter' = r.counter
    /\ unwrap_or_never(hasDevtools, devtools # <<>>)
    /\ sequential' = push(sequential, from_devtools_msg(Head(devtools)))
    /\ devtools' = Tail(devtools)
    /\ log' = log \o <<Entry("poll_task", Gone("task"), FALSE),
                        Entry("poll_devtools", Gone("devtools"), TRUE)>>
    /\ UNCHANGED <<control, timer, disc, hasDevtools, closinfo, pc, idx,
                   outcome, history, sent>>
    /\ UNCHANGED others

\* Err(_) => match devtools_receiver.try_recv() { .., Err(_) => break }
DrainEnd ==
    /\ pc = "drain"
    /\ drain_continues(closing)
    /\ LET r == take_tasks_and_recv(port, msg_queue, throttled, taken_task_counter)
       IN  /\ ~r.ok
           /\ port' = r.port
           /\ msg_queue' = r.msg_queue
           /\ throttled' = r.throttled
           /\ taken_task_counter' = r.counter
    /\ ~unwrap_or_never(hasDevtools, devtools # <<>>)
    /\ LET e == try_recv_err(Gone("devtools") = 1)
       IN  /\ pc' = IF e = "break" THEN "process" ELSE "panicked"
           /\ outcome' = IF e = "break" THEN outcome ELSE "panic"
    /\ log' = log \o <<Entry("poll_task", Gone("task"), FALSE),
                        Entry("poll_devtools", Gone("devtools"), FALSE)>>
    /\ UNCHANGED <<control, devtools, timer, disc, hasDevtools, closinfo,
                   sequential, idx, history, sent>>
    /\ UNCHANGED others

\* One iteration of `for event in sequential`: the handler returns r; g
\* tells whether handle_worker_post_event yields a guard.
ProcessEvent(r, g) ==
    /\ pc = "process"
    /\ idx <= Len(sequential)
    /\ delivered' = IF sequential[idx].kind = "TimerFired"
                    THEN delivered
                    ELSE Append(delivered, sequential[idx])
    /\ dropped' = IF handler_continues(r)
                  THEN dropped
                  ELSE dropped \cup {e \in Range(Suffix(sequential, idx)) :
                                        e.kind # "TimerFired"}
    /\ LET l == Append(log, Entry("handle", idx, r))
       IN  IF handler_continues(r)
           THEN /\ log' = post_event(l, idx, g)
                /\ idx' = idx + 1
                /\ UNCHANGED <<pc, outcome>>
           ELSE /\ log' = l
                /\ Return("shutdown")
                /\ idx' = idx
    /\ IF handler_continues(r)
       THEN UNCHANGED taken_task_counter
       ELSE TRUE
    /\ UNCHANGED <<chans, disc, hasDevtools, msg_queue, throttled, closinfo,
                   sequential, sent>>
    /\ UNCHANGED others

\* The batch is exhausted: the GC checkpoint, then the return.
ProcessDone ==
    /\ pc = "process"
    /\ idx > Len(sequential)
    /\ log' = gc_checkpoint(log)
    /\ Return("normal")
    /\ UNCHANGED <<chans, disc, hasDevtools, msg_queue, throttled, closinfo,
                   sequential, idx, history, sent>>
    /\ UNCHANGED others

(* --------------------------- ScriptPort::recv -------------------------- *)

\* DedicatedWorkerScriptMsg::CommonWorker(_, WorkerScriptMsg::DOMMessage {..})
DOMMessage(i) == [id |-> i, src |-> "dom", prio |-> FALSE]

\* DedicatedWorkerScriptMsg::CommonWorker(_, WorkerScriptMsg::Common(task))
Common(i) == Msg(i, "task", FALSE)

\* A recv that takes a message it cannot return for a closed channel.
recv_malformed_as_err(r) ==
    IF r.ok /\ r.msg.src = "task"
    THEN [tag |-> "Ok", msg |-> r.msg]
    ELSE [tag |-> "Err", msg |-> WakeUp]

\* ScriptPort::recv, given r, the result of the receiver's own recv():
\* Err(()) on a disconnected channel, a panic on WakeUp and on a DOMMessage,
\* Ok(script_msg) on a common message.
recv(r) ==
    IF ~r.ok THEN [tag |-> "Err", msg |-> WakeUp]
    ELSE IF IsWakeUp(r.msg) THEN [tag |-> "panic", msg |-> WakeUp]
    ELSE IF r.msg.src = "task" THEN [tag |-> "Ok", msg |-> r.msg]
    ELSE [tag |-> "panic", msg |-> WakeUp]

\* The thread that owns the receiver has not panicked.
PortAlive == recvResult.tag # "panic"

\* A sender puts a message on the channel: a wake-up, a common message or
\* a DOM message.
PortSend(m) ==
    /\ PortAlive
    /\ ~receiverGone
    /\ Len(receiver) < MaxMsgs
    /\ receiver' = Append(receiver, m)
    /\ UNCHANGED <<receiverGone, recvArg, recvResult, worker, headless, guardslot>>

\* Every sender of the receiver is dropped.
PortDisconnect ==
    /\ PortAlive
    /\ ~receiverGone
    /\ receiverGone' = TRUE
    /\ UNCHANGED <<receiver, recvArg, recvResult, worker, headless, guardslot>>

\* A call of ScriptPort::recv: it blocks until the receiver holds a message
\* or has lost its senders.
PortRecv ==
    /\ PortAlive
    /\ receiver # <<>> \/ receiverGone
    /\ LET r == IF receiver # <<>>
                THEN [ok |-> TRUE, msg |-> Head(receiver)]
                ELSE [ok |-> FALSE, msg |-> WakeUp]
       IN  /\ recvArg' = r
           /\ recvResult' = recv(r)
           /\ receiver' = IF r.ok THEN Tail(receiver) ELSE receiver
    /\ UNCHANGED <<receiverGone, worker, headless, guardslot>>

\* The messages senders put on the channel.
PortMessages ==
    {WakeUp} \cup {Common(i) : i \in 1..MaxMsgs}
             \cup {DOMMessage(i) : i \in 1..MaxMsgs}

NextScriptPort ==
    \/ \E m \in PortMessages : PortSend(m)
    \/ PortDisconnect
    \/ PortRecv

(* ------------------------ headless event loop -------------------------- *)

\* EventsLoop::sleep: lock, return at once when the flag is set, otherwise
\* wait on the condition variable (the wait releases the lock).
Sleep ==
    /\ appPc = "sleep"
    /\ appPc' = IF flag THEN "handle" ELSE "waiting"
    /\ notified' = FALSE
    /\ wokeAwake' = FALSE
    /\ UNCHANGED <<flag, wakes, worker, scriptport, guardslot>>

\* wait_timeout returns because the condition variable was notified.
WaitNotified ==
    /\ appPc = "waiting"
    /\ notified
    /\ appPc' = "handle"
    /\ UNCHANGED <<flag, notified, wokeAwake, wakes, worker, scriptport,
                   guardslot>>

\* wait_timeout returns because its 5 ms have passed.
WaitTimeout ==
    /\ appPc = "waiting"
    /\ appPc' = "handle"
    /\ UNCHANGED <<flag, notified, wokeAwake, wakes, worker, scriptport,
                   guardslot>>

\* app.handle_events_with_headless() returns stop; app.is_animating()
\* returns animating.
HandleEvents(stop, animating) ==
    /\ appPc = "handle"
    /\ appPc' = IF stop THEN "stopped"
                ELSE IF ~animating THEN "clear" ELSE "sleep"
    /\ UNCHANGED <<flag, notified, wokeAwake, wakes, worker, scriptport,
                   guardslot>>

\* *flag.lock().unwrap() = false
ClearFlag ==
    /\ appPc = "clear"
    /\ flag' = FALSE
    /\ appPc' = "sleep"
    /\ UNCHANGED <<notified, wokeAwake, wakes, worker, scriptport, guardslot>>

\* HeadlessEventLoopWaker::wake, on another thread: lock, set the flag,
\* notify_all.
Wake ==
    /\ appPc # "stopped"
    /\ wakes < MaxWakes
    /\ wakes' = wakes + 1
    /\ flag' = TRUE
    /\ notified' = (notified \/ appPc = "waiting")
    /\ wokeAwake' = (wokeAwake \/ appPc # "waiting")
    /\ UNCHANGED <<appPc, worker, scriptport, guardslot>>

NextHeadless ==
    \/ Sleep
    \/ WaitNotified
    \/ WaitTimeout
    \/ \E stop \in BOOLEAN, animating \in BOOLEAN : HandleEvents(stop, animating)
    \/ ClearFlag
    \/ Wake

(* --------------------------- EventLoopGuard ---------------------------- *)

Threads == 1..MaxThreads

\* The ActiveEventLoop values a guard can be created for.
ActiveEventLoops == {"a", "b"}

\* Cell::new(None)
None == "None"

\* A constructor without the assertion.
assert_skipped(cell) == TRUE

\* assert!(cell.get().is_none(), ..)
assert_is_none(cell) == cell = None

\* EventLoopGuard::new(event_loop) on thread t.  A failed assertion
\* panics: the thread ends, with its guards dropped when the panic unwinds
\* and left as they are when it aborts.
GuardNew(t, l, unwind) ==
    /\ threadPc[t] = "running"
    /\ IF assert_is_none(CURRENT_EVENT_LOOP[t])
       THEN /\ CURRENT_EVENT_LOOP' = [CURRENT_EVENT_LOOP EXCEPT ![t] = l]
            /\ guards' = [guards EXCEPT ![t] = @ + 1]
            /\ UNCHANGED threadPc
       ELSE /\ threadPc' = [threadPc EXCEPT ![t] = "panicked"]
            /\ CURRENT_EVENT_LOOP' =
                   IF unwind /\ guards[t] > 0
                   THEN [CURRENT_EVENT_LOOP EXCEPT ![t] = None]
                   ELSE CURRENT_EVENT_LOOP
            /\ guards' = IF unwind THEN [guards EXCEPT ![t] = 0] ELSE guards
    /\ UNCHANGED <<lastWith, worker, scriptport, headless>>

\* Drop for EventLoopGuard, on thread t.
GuardDrop(t) ==
    /\ threadPc[t] = "running"
    /\ guards[t] > 0
    /\ CURRENT_EVENT_LOOP' = [CURRENT_EVENT_LOOP EXCEPT ![t] = None]
    /\ guards' = [guards EXCEPT ![t] = @ - 1]
    /\ UNCHANGED <<threadPc, lastWith, worker, scriptport, headless>>

\* cell.get().map(|ptr| f(..)): the closure runs on Some, not on None.
with_current_event_loop(cell) ==
    IF cell = None THEN [ran |-> FALSE, result |-> "None"]
    ELSE [ran |-> TRUE, result |-> "Some"]

\* A call of with_current_event_loop on thread t; live is the number of
\* guards alive on the thread at the call.
WithCurrent(t) ==
    /\ threadPc[t] = "running"
    /\ LET w == with_current_event_loop(CURRENT_EVENT_LOOP[t])
       IN  lastWith' = [lastWith EXCEPT ![t] =
                           [ran |-> w.ran, result |-> w.result, live |-> guards[t]]]
    /\ UNCHANGED <<CURRENT_EVENT_LOOP, guards, threadPc, worker, scriptport,
                   headless>>

NextGuard ==
    \/ \E t \in Threads, l \in ActiveEventLoops, unwind \in BOOLEAN :
           GuardNew(t, l, unwind)
    \/ \E t \in Threads : GuardDrop(t)
    \/ \E t \in Threads : WithCurrent(t)

(* ---------------------------- environment ------------------------------ *)

\* The worker thread runs: its receivers exist, so a send can succeed.
Alive == pc \notin {"panicked", "exited"}

\* A producer thread sends on the control channel.
SendControl ==
    /\ Alive
    /\ TotalSent < MaxMsgs
    /\ "control" \notin disc
    /\ control' = Append(control, Msg(sent["control"] + 1, "control", FALSE))
    /\ sent' = [sent EXCEPT !["control"] = @ + 1]
    /\ UNCHANGED <<port, devtools, timer, disc, hasDevtools, queue, closinfo,
                   pc, sequential, idx, log, outcome, history>>
    /\ UNCHANGED others

\* ScriptChan::send on a worker sender: a common task, of a priority or a
\* throttled task source.
SendTask(p) ==
    /\ Alive
    /\ TotalSent < MaxMsgs
    /\ "task" \notin disc
    /\ port' = Append(port, Msg(sent["task"] + 1, "task", p))
    /\ sent' = [sent EXCEPT !["task"] = @ + 1]
    /\ UNCHANGED <<control, devtools, timer, disc, hasDevtools, queue, closinfo,
                   pc, sequential, idx, log, outcome, history>>
    /\ UNCHANGED others

\* The devtools server sends a DevtoolScriptControlMsg.
SendDevtools ==
    /\ Alive
    /\ TotalSent < MaxMsgs
    /\ "devtools" \notin disc
    /\ hasDevtools
    /\ devtools' = Append(devtools, Msg(sent["devtools"] + 1, "devtools", FALSE))
    /\ sent' = [sent EXCEPT !["devtools"] = @ + 1]
    /\ UNCHANGED <<control, port, timer, disc, hasDevtools, queue, closinfo,
                   pc, sequential, idx, log, outcome, history>>
    /\ UNCHANGED others

\* The timer scheduler's wait channel becomes ready.
TimerFire ==
    /\ Alive
    /\ ~timer
    /\ timer' = TRUE
    /\ UNCHANGED <<control, port, devtools, disc, hasDevtools, queue, closinfo,
                   pc, sequential, idx, log, outcome, history, sent>>
    /\ UNCHANGED others

\* Every sender of channel c is dropped.
Disconnect(c) ==
    /\ Alive
    /\ c \notin disc
    /\ Cardinality(disc) < MaxDisconnects
    /\ c = "devtools" => hasDevtools
    /\ disc' = disc \cup {c}
    /\ UNCHANGED <<chans, hasDevtools, queue, closinfo, pc, sequential, idx,
                   log, outcome, history, sent>>
    /\ UNCHANGED others

\* The closing flag is set (close() in the worker, terminate() outside it).
SetClosing ==
    /\ Alive
    /\ ~closing
    /\ closing' = TRUE
    /\ closedInWait' = (pc = "wait")
    /\ queuedAtClosing' = IF pc = "wait" THEN QueuedTaskIds ELSE {}
    /\ UNCHANGED <<chans, disc, hasDevtools, queue, pc, sequential, idx, log,
                   outcome, history, sent>>
    /\ UNCHANGED others

(* --------------------------- specification ----------------------------- *)

InitWorker ==
    /\ control = <<>>
    /\ port = <<>>
    /\ devtools = <<>>
    /\ timer = FALSE
    /\ disc = {}
    /\ hasDevtools \in BOOLEAN
    /\ closing = FALSE
    /\ msg_queue = <<>>
    /\ throttled = <<>>
    /\ taken_task_counter = 0
    /\ pc = "wait"
    /\ sequential = <<>>
    /\ idx = 1
    /\ log = <<>>
    /\ outcome = "none"
    /\ delivered = <<>>
    /\ dropped = {}
    /\ sent = [c \in Channels |-> 0]
    /\ closedInWait = FALSE
    /\ queuedAtClosing = {}

\* No call of ScriptPort::recv was made yet.
NoResult == [tag |-> "none", msg |-> WakeUp]

InitScriptPort ==
    /\ receiver = <<>>
    /\ receiverGone = FALSE
    /\ recvArg = [ok |-> FALSE, msg |-> WakeUp]
    /\ recvResult = NoResult

\* Mutex::new(false); run_app enters its loop after app.init.
InitHeadless ==
    /\ flag = FALSE
    /\ appPc = "sleep"
    /\ notified = FALSE
    /\ wokeAwake = FALSE
    /\ wakes = 0

\* No call of with_current_event_loop was made yet.
NoCall == [ran |-> FALSE, result |-> "none", live |-> 0]

InitGuard ==
    /\ CURRENT_EVENT_LOOP = [t \in Threads |-> None]
    /\ guards = [t \in Threads |-> 0]
    /\ threadPc = [t \in Threads |-> "running"]
    /\ lastWith = [t \in Threads |-> NoCall]

Init == InitWorker /\ InitScriptPort /\ InitHeadless /\ InitGuard

Next ==
    \/ SelectControl
    \/ SelectTask
    \/ SelectDevtools
    \/ SelectTimer
    \/ DrainClosing
    \/ DrainTask
    \/ DrainDevtools
    \/ DrainEnd
    \/ \E r \in BOOLEAN, g \in BOOLEAN : ProcessEvent(r, g)
    \/ ProcessDone
    \/ SendControl
    \/ \E p \in BOOLEAN : SendTask(p)
    \/ SendDevtools
    \/ TimerFire
    \/ SetClosing

\* The worker with every channel connected throughout.
Spec == Init /\ [][Next]_vars

\* Calls of ScriptPort::recv on a receiver that senders feed and drop.
SpecScriptPort == Init /\ [][NextScriptPort]_vars

\* run_app's headless loop and the threads that wake it.
SpecHeadless == Init /\ [][NextHeadless]_vars

\* Threads creating and dropping event-loop guards and calling
\* with_current_event_loop.
SpecGuard == Init /\ [][NextGuard]_vars

\* The premises of exhaustive delivery: the handler always returns true,
\* the closing flag stays false so that the caller keeps re-invoking the
\* loop, and no channel loses its senders. The post-event hook hands back
\* its guard every time: the guard changes the log only, never a delivery.
LiveNext ==
    \/ SelectControl
    \/ SelectTask
    \/ SelectDevtools
    \/ SelectTimer
    \/ DrainTask
    \/ DrainDevtools
    \/ DrainEnd
    \/ ProcessEvent(TRUE, TRUE)
    \/ ProcessDone
    \/ SendControl
    \/ \E p \in BOOLEAN : SendTask(p)
    \/ SendDevtools
    \/ TimerFire

\* The worker whose channels may lose all their senders, while the handler
\* returns true and the closing flag stays false: the caller re-invokes the
\* loop after every return.
NextDisc ==
    \/ LiveNext
    \/ \E c \in Channels : Disconnect(c)

SpecDisc == Init /\ [][NextDisc]_vars

\* Scenario A: a control message and two task messages, of either lane,
\* are enqueued before the first invocation starts; nothing is sent
\* afterwards, no timer fires and the closing flag stays false.
InitScenarioA ==
    /\ control = <<Msg(1, "control", FALSE)>>
    /\ \E p1 \in BOOLEAN, p2 \in BOOLEAN :
           port = <<Msg(1, "task", p1), Msg(2, "task", p2)>>
    /\ devtools = <<>>
    /\ timer = FALSE
    /\ disc = {}
    /\ hasDevtools \in BOOLEAN
    /\ closing = FALSE
    /\ msg_queue = <<>>
    /\ throttled = <<>>
    /\ taken_task_counter = 0
    /\ pc = "wait"
    /\ sequential = <<>>
    /\ idx = 1
    /\ log = <<>>
    /\ outcome = "none"
    /\ delivered = <<>>
    /\ dropped = {}
    /\ sent = [c \in Channels |-> IF c = "control" THEN 1
                                  ELSE IF c = "task" THEN 2 ELSE 0]
    /\ closedInWait = FALSE
    /\ queuedAtClosing = {}
    /\ InitScriptPort /\ InitHeadless /\ InitGuard

NextScenarioA ==
    \/ SelectControl
    \/ SelectTask
    \/ DrainTask
    \/ DrainEnd
    \/ \E r \in BOOLEAN, g \in BOOLEAN : ProcessEvent(r, g)
    \/ ProcessDone

SpecScenarioA == InitScenarioA /\ [][NextScenarioA]_vars

\* The steps of the worker thread past the select!: one sequential program,
\* at most one kind of them enabled at a time.
LoopStep ==
    \/ DrainTask
    \/ DrainDevtools
    \/ DrainEnd
    \/ ProcessEvent(TRUE, TRUE)
    \/ ProcessDone

\* The worker thread keeps running (weak fairness of its steps), and
\* select! picks at random among the ready arms, so an arm that is ready
\* again and again is eventually taken (strong fairness of each arm).
Fairness ==
    /\ SF_vars(SelectControl)
    /\ SF_vars(SelectTask)
    /\ SF_vars(SelectDevtools)
    /\ SF_vars(SelectTimer)
    /\ WF_vars(LoopStep)

LiveSpec == Init /\ [][LiveNext]_vars /\ Fairness

\* The worker woken and fed by its task and devtools producers alone: the
\* handler may return false and the closing flag may be set, every channel
\* staying connected.
TermNext ==
    \/ SelectTask
    \/ SelectDevtools
    \/ DrainClosing
    \/ DrainTask
    \/ DrainDevtools
    \/ DrainEnd
    \/ \E r \in BOOLEAN : ProcessEvent(r, TRUE)
    \/ ProcessDone
    \/ \E p \in BOOLEAN : SendTask(p)
    \/ SendDevtools
    \/ SetClosing

\* A step of the worker thread past the select!, whatever the handler
\* returns.
WorkerStep ==
    \/ LoopStep
    \/ ProcessEvent(FALSE, TRUE)
    \/ DrainClosing

\* The worker thread keeps running and the handler returns.
TermSpec == Init /\ [][TermNext]_vars /\ WF_vars(WorkerStep)

(* ------------------------- reading the log ----------------------------- *)

Positions(o) == {i \in 1..Len(log) : log[i].op = o}

Count(o) == Cardinality(Positions(o))

HandledOk == {i \in Positions("handle") : log[i].ok}

\* Reading the log from left to right, what the loop owes after an entry:
\* "owed" after a handler call that returned true, "paid" once the microtask
\* checkpoint of that call has run, "none" before the first call, after a
\* call that returned false and after the GC checkpoint; "bad" as soon as a
\* checkpoint runs that is not owed, or a handler call or the GC checkpoint
\* comes while one is owed.
Owes(st, e) ==
    CASE st = "bad"         -> "bad"
      [] e.op = "handle"    -> IF st = "owed" THEN "bad"
                               ELSE IF e.ok THEN "owed" ELSE "none"
      [] e.op = "microtask" -> IF st = "owed" THEN "paid" ELSE "bad"
      [] e.op = "gc"        -> IF st = "owed" THEN "bad" ELSE "none"
      [] OTHER              -> st

RECURSIVE Scan(_, _)
Scan(i, st) == IF i > Len(log) THEN st ELSE Scan(i + 1, Owes(st, log[i]))

\* The invocation whose log this is has returned.
Returned == pc \in {"wait", "exited"} /\ outcome \in {"normal", "shutdown"}

(* ------------------------------ claims --------------------------------- *)

\* C1: every handler call that returned true is followed, before the next
\* handler call or the GC checkpoint, by exactly one microtask checkpoint,
\* and a microtask checkpoint runs nowhere else: not before the first
\* handler call, not after a handler call that returned false.
C1_CheckpointPairing == Scan(1, "none") \in {"none", "paid"}

\* A batch of two events was processed to its end.
C1_Witness ==
    /\ Cardinality(HandledOk) = 2
    /\ Count("microtask") = 2
    /\ Count("gc") = 1

\* C2: a handler call that returns false ends the invocation on the spot:
\* it is the last call of the invocation (no microtask checkpoint for it, no
\* later handler call, no GC checkpoint), the function returns, and the
\* events behind it in the batch are gone: never handled later, never put
\* back on a channel or into the task queue.
C2_ShutdownTruncates ==
    /\ \A i \in Positions("handle") :
           ~log[i].ok => /\ i = Len(log)
                         /\ outcome = "shutdown"
                         /\ Returned
                         /\ Count("gc") = 0
                         /\ Cardinality(Positions("handle")) = log[i].ev
                         /\ Count("microtask") = log[i].ev - 1
    /\ \A e \in dropped :
           /\ e \notin Range(delivered)
           /\ e.kind = "FromControl" => e.id \notin Ids(control)
           /\ e.kind = "FromDevtools" => e.id \notin Ids(devtools)
           /\ e.kind = "FromTask" => e.id \notin QueuedTaskIds
           /\ pc \in {"drain", "process"} => e \notin Range(sequential)

\* The handler returned false on the 2nd event of a 3-event batch: two
\* events handled, the third dropped.
C2_Witness ==
    /\ outcome = "shutdown"
    /\ Returned
    /\ Len(sequential) = 3
    /\ idx = 2
    /\ Cardinality(Positions("handle")) = 2
    /\ sequential[3] \in dropped

\* C3: an invocation that returns normally has run the GC checkpoint exactly
\* once, as its last call, after the microtask checkpoint of the last event
\* of the batch, every event of the batch having been handled; an
\* invocation ended by the handler returning false has run it zero times;
\* and no GC checkpoint runs while the invocation is still going.
C3_SingleTrailingGc ==
    LET gcs == Count("gc") IN
    /\ gcs <= 1
    /\ gcs = 1 =>
           /\ Returned /\ outcome = "normal"
           /\ log[Len(log)].op = "gc"
           /\ Cardinality(HandledOk) = Len(sequential)
           /\ \A j \in Positions("microtask") : j < Len(log)
    /\ (Returned /\ outcome = "normal") => gcs = 1
    /\ (Returned /\ outcome = "shutdown") => gcs = 0

\* A normal return after a batch of two events.
C3_Witness ==
    /\ Returned /\ outcome = "normal"
    /\ Len(sequential) = 2
    /\ Count("gc") = 1

Kind(c) == CASE c = "control"  -> "FromControl"
             [] c = "task"     -> "FromTask"
             [] c = "devtools" -> "FromDevtools"

\* Message n of channel c has been passed to handle_event.
Delivered(c, n) ==
    \E k \in 1..Len(delivered) :
        delivered[k].kind = Kind(c) /\ delivered[k].id = n

NoDuplicateDelivery ==
    \A i, j \in 1..Len(delivered) :
        (delivered[i].kind = delivered[j].kind /\ delivered[i].id = delivered[j].id)
            => i = j

\* Every message enqueued so far has been passed to handle_event.
AllSentDelivered ==
    \A c \in Channels : \A n \in 1..sent[c] : Delivered(c, n)

\* C4: with the handler always returning true and the caller re-invoking
\* the loop (the closing flag still false), every message enqueued on the
\* control, worker-task or devtools channel is eventually passed to
\* handle_event, and no message is passed to it twice.  A delivered message
\* stays delivered, so "each enqueued message is eventually delivered" is
\* "again and again, everything enqueued so far has been delivered".
C4_ExactlyOnce ==
    /\ []NoDuplicateDelivery
    /\ []<>AllSentDelivered

\* One message of each channel was sent and all three were delivered.
C4_Witness ==
    /\ \A c \in Channels : sent[c] = 1 /\ Delivered(c, 1)
    /\ Len(delivered) = 3

\* Same source and same lane: the control channel, the devtools channel,
\* the priority tasks, the throttled tasks.
SameLane(a, b) == a.kind = b.kind /\ a.prio = b.prio

InSendOrder(s, same(_, _)) ==
    \A i, j \in 1..Len(s) : (i < j /\ same(s[i], s[j])) => s[i].id < s[j].id

SameSource(a, b) == a.kind = b.kind

\* C5 as stated: events of one source reach the handler in the order they
\* were sent on it, the worker-task channel included.
C5_Original ==
    /\ InSendOrder(delivered, SameSource)
    /\ InSendOrder(sequential, SameSource)

\* C5, amended: events of the control channel, of the devtools channel and,
\* on the worker-task channel, of one lane of the task queue (priority tasks
\* among themselves, throttled tasks among themselves) reach the handler in the
\* order they were sent, within one batch and across invocations.
C5_OrderPerLane ==
    /\ InSendOrder(delivered, SameLane)
    /\ InSendOrder(sequential, SameLane)

\* Two tasks of one lane delivered around a message of another source.
C5_Witness ==
    \E i, j, k \in 1..Len(delivered) :
        /\ i < j /\ j < k
        /\ delivered[i].kind = "FromTask"
        /\ SameLane(delivered[i], delivered[k])
        /\ delivered[j].kind # "FromTask"

DeliveredTaskIds == {delivered[k].id : k \in {k \in 1..Len(delivered) :
                                                 delivered[k].kind = "FromTask"}}

\* The invocation that was waiting when the flag was set has gone past its
\* initial wait.
PastClosedWait == closedInWait /\ pc # "wait"

DrainEndedOnEmpty ==
    \E i \in Positions("poll_devtools") :
        ~log[i].ok /\ log[i - 1].op = "poll_task" /\ ~log[i - 1].ok

\* A poll of the task queue reports empty (what it holds, if anything, is
\* held back by the throttle) and so does a poll of the devtools channel.
NothingToDrain ==
    /\ ~take_tasks_and_recv(port, msg_queue, throttled, taken_task_counter).ok
    /\ hasDevtools => devtools = <<>>

DrainStepReadsClosing ==
    pc = "drain" =>
        /\ closing => (sequential' = sequential /\ pc' = "process")
        /\ (~closing /\ pc' = "process") => NothingToDrain
        /\ (~closing /\ pc' = "drain") => Len(sequential') = Len(sequential) + 1

WaitFoundDisconnect == Len(log) >= 1 /\ log[1].op = "select" /\ ~log[1].ok

\* C8 as stated: on a disconnected control or task-ready source the
\* function returns normally, with no panic.
C8_Original == WaitFoundDisconnect => (pc # "panicked" /\ outcome = "normal")

\* C8, amended: on a disconnected control or task-ready source the unwrap
\* of the received error panics: the invocation does not return, no timer
\* dispatch, no handler call and no checkpoint runs, and the worker thread
\* never runs again.
C8_DisconnectPanics ==
    /\ WaitFoundDisconnect =>
           /\ pc = "panicked" /\ outcome = "panic"
           /\ Len(log) = 1
           /\ sequential = <<>>
    /\ pc = "panicked" => WaitFoundDisconnect

\* The control channel lost its senders and the wait panicked, after an
\* earlier invocation had delivered a message.
C8_Witness ==
    /\ pc = "panicked"
    /\ disc = {"control"}
    /\ WaitFoundDisconnect
    /\ Len(delivered) >= 1

\* C9: in every invocation whose initial wait produced an event, whichever
\* source it came from, dispatch_completed_timers is called exactly once,
\* right after the wait and before any drain poll and any handler call.
C9_DispatchOnce ==
    (Len(log) >= 1 /\ log[1].ok) =>
        /\ log[1].op = "select"
        /\ Len(log) >= 2 /\ log[2].op = "dispatch"
        /\ Count("dispatch") = 1
        /\ Len(sequential) >= 1

\* An invocation woken by a control message, with a drain poll and two handler
\* calls behind the dispatch.
C9_Witness ==
    /\ Count("dispatch") = 1
    /\ sequential # <<>> /\ sequential[1].kind = "FromControl"
    /\ Count("poll_task") >= 1
    /\ Count("handle") = 2

IsPrefix(a, b) == Len(a) <= Len(b) /\ SubSeq(b, 1, Len(a)) = a

\* A step taken during the drain or processing phase leaves what is on the
\* control channel there and a pending timer wake pending.
ControlAndTimerStayPending ==
    pc \in {"drain", "process"} =>
        (IsPrefix(control, control') /\ (timer => timer'))

\* C10: a FromControl or TimerFired event sits only at the head of a batch,
\* and the drain and processing phases take nothing from the control
\* channel and leave a pending timer wake pending.
C10_ControlTimerOnlyFirst ==
    /\ [](\A i \in 2..Len(sequential) :
              sequential[i].kind \notin {"FromControl", "TimerFired"})
    /\ [][ControlAndTimerStayPending]_vars

\* A control message and a timer wake arrived during the drain or the
\* processing of a batch of two, and are still pending.
C10_Witness ==
    /\ pc = "process"
    /\ Len(sequential) = 2
    /\ control # <<>>
    /\ timer

\* The batch of the first invocation, assembled and not yet processed.
FirstBatch == pc = "process" /\ idx = 1 /\ delivered = <<>> /\ dropped = {}

\* The events of a batch as (source, sequence number) pairs.
BatchIds(b) == [i \in 1..Len(b) |-> <<b[i].kind, b[i].id>>]

IsTaskEvent(e) == e.kind = "FromTask"

TaskPart == SelectSeq(sequential, IsTaskEvent)

\* C11 as stated: with M1, T1, T2 enqueued before the invocation starts,
\* the batch is [M1, T1, T2] when the control source is chosen first, and
\* [T1, T2] with M1 still on the control channel when the task source is.
C11_Original ==
    FirstBatch =>
        /\ sequential[1].kind = "FromControl" =>
               BatchIds(sequential) =
                   <<<<"FromControl", 1>>, <<"FromTask", 1>>, <<"FromTask", 2>>>>
        /\ sequential[1].kind = "FromTask" =>
               /\ BatchIds(sequential) = <<<<"FromTask", 1>>, <<"FromTask", 2>>>>
               /\ Ids(control) = {1}

\* C11, amended: the batch is M1 (when the control source is chosen first,
\* otherwise M1 stays on the control channel) followed by T1 and T2 as the
\* task queue yields them: priority tasks before non-priority tasks, each
\* lane in send order, non-priority tasks only up to the throttling bound.
\* T1 precedes T2 when both are of one lane, T2 precedes T1 when T2 alone
\* is a priority task.
C11_BatchAsQueueYields ==
    FirstBatch =>
        /\ sequential[1].kind = "FromControl" =>
               /\ control = <<>>
               /\ Tail(sequential) = TaskPart
        /\ sequential[1].kind = "FromTask" =>
               /\ Ids(control) = {1}
               /\ sequential = TaskPart
        /\ \A i, j \in 1..Len(TaskPart) :
               i < j => \/ TaskPart[i].prio /\ ~TaskPart[j].prio
                        \/ /\ TaskPart[i].prio = TaskPart[j].prio
                           /\ TaskPart[i].id < TaskPart[j].id
        /\ Len(SelectSeq(TaskPart, NotPrio)) <= PerIterationMax
        /\ throttled # <<>> => Len(SelectSeq(TaskPart, NotPrio)) = PerIterationMax
        /\ \A k \in 1..Len(throttled) : ~throttled[k].prio
        /\ Ids(TaskPart) \cup Ids(throttled) = {1, 2}
        /\ Len(TaskPart) + Len(throttled) = 2
        /\ (\A k \in 1..Len(TaskPart) : TaskPart[k].prio) =>
               BatchIds(TaskPart) = <<<<"FromTask", 1>>, <<"FromTask", 2>>>>

\* The control source was chosen first and both tasks, priority tasks,
\* follow M1 in the batch.
C11_Witness ==
    /\ FirstBatch
    /\ BatchIds(sequential) =
           <<<<"FromControl", 1>>, <<"FromTask", 1>>, <<"FromTask", 2>>>>
    /\ sequential[2].prio /\ sequential[3].prio

\* A drain poll of this invocation found the senders of its channel gone.
DrainSawDisconnect ==
    \E i \in Positions("poll_task") \cup Positions("poll_devtools") :
        log[i].ev = 1

\* The handler calls of the invocation take the batch in order: the k-th
\* call is for the k-th event.
HandledInOrder ==
    \A i \in Positions("handle") :
        log[i].ev = Cardinality({j \in Positions("handle") : j <= i})

\* C13: in the drain phase a disconnected task queue or devtools channel
\* with nothing buffered reads as empty: after such a poll of the task queue
\* the devtools channel is polled, after such a poll of the devtools channel
\* the batch stops growing; nothing panics past the initial wait; and the
\* batch collected is processed in order with the usual checkpoints.
C13_DrainDisconnectIsEmpty ==
    /\ \A i \in Positions("poll_task") :
           (log[i].ev = 1 /\ ~log[i].ok) =>
               i < Len(log) /\ log[i + 1].op = "poll_devtools"
    /\ \A i \in Positions("poll_devtools") :
           ~log[i].ok =>
               /\ pc \notin {"drain", "panicked"}
               /\ \A j \in Positions("poll_task") : j < i
               /\ Len(sequential) = 1 + Cardinality({j \in 1..i : log[j].ok
                                          /\ log[j].op \in {"poll_task", "poll_devtools"}})
    /\ pc = "panicked" => Len(log) = 1
    /\ DrainSawDisconnect =>
           /\ HandledInOrder
           /\ Scan(1, "none") \in {"none", "paid"}
           /\ (Returned /\ outcome = "normal") =>
                  /\ Cardinality(HandledOk) = Len(sequential)
                  /\ Count("microtask") = Len(sequential)
                  /\ Count("gc") = 1

\* The devtools channel had lost its senders when the drain polled it; the
\* batch of two was processed and the invocation returned normally.
C13_Witness ==
    /\ Returned /\ outcome = "normal"
    /\ Len(sequential) = 2
    /\ \E i \in Positions("poll_devtools") : log[i].ev = 1 /\ ~log[i].ok
    /\ Count("microtask") = 2

\* The events of the current batch that the handler has not been given yet.
PendingBatch ==
    IF pc \in {"drain", "process"} THEN Suffix(sequential, idx - 1) ELSE <<>>

Occurrences(q, n) == Cardinality({k \in 1..Len(q) : q[k].id = n})

\* The places task n is in: on the port, in the queue's buffer, held back,
\* in the batch waiting for the handler, or delivered.
TaskPlaces(n) ==
    Occurrences(port, n) + Occurrences(msg_queue, n) + Occurrences(throttled, n)
        + Occurrences(SelectSeq(PendingBatch, IsTaskEvent), n)
        + Occurrences(SelectSeq(delivered, IsTaskEvent), n)

TasksAccounted == \A n \in 1..sent["task"] : TaskPlaces(n) = 1

NoPriorityHeldBack == \A k \in 1..Len(throttled) : ~throttled[k].prio

AllTasksDelivered == \A n \in 1..sent["task"] : Delivered("task", n)

\* C14: the throttle loses nothing and repeats nothing: every task sent is
\* in exactly one place (port, buffer, held back, batch, delivered), only
\* non-priority tasks are ever held back, and what is held back is handed
\* out by a later poll: again and again nothing is held back and every
\* task sent has reached the handler.
C14_ThrottleKeepsTasks ==
    /\ [](TasksAccounted /\ NoPriorityHeldBack)
    /\ []<>(throttled = <<>> /\ AllTasksDelivered)

\* Three non-priority tasks were pending together: two were delivered, the
\* third is held back and the queue has left a wake-up on its port for the
\* next invocation.
C14_Witness ==
    /\ pc = "wait"
    /\ Len(throttled) = 1
    /\ port = <<WakeUp>>
    /\ BatchIds(delivered) = <<<<"FromTask", 1>>, <<"FromTask", 2>>>>
    /\ TaskPlaces(3) = 1

\* C15: a post-event guard is acquired only right after a handler call
\* that returned true, for that event, and is released right after that
\* event's microtask checkpoint: before the next handler call and before
\* the GC checkpoint.  So at most one guard is live at a time, none is
\* acquired for an event whose handler returned false, and none is live
\* when the invocation returns.
C15_GuardScopedToEvent ==
    \A i \in 1..Len(log) :
        CASE log[i].op = "guard_acquire" ->
                 /\ i > 1 /\ log[i - 1] = Entry("handle", log[i].ev, TRUE)
                 /\ i + 2 <= Len(log)
                 /\ log[i + 1] = Entry("microtask", log[i].ev, TRUE)
                 /\ log[i + 2] = Entry("guard_release", log[i].ev, TRUE)
          [] log[i].op = "guard_release" ->
                 i > 2 /\ log[i - 2].op = "guard_acquire"
          [] log[i].op = "handle" ->
                 ~log[i].ok => i = Len(log)
          [] OTHER -> TRUE

\* Guards were acquired and released for the first two events of a batch
\* of three, and the handler returned false for the third.
C15_Witness ==
    /\ Returned /\ outcome = "shutdown"
    /\ Len(sequential) = 3 /\ idx = 3
    /\ Count("guard_acquire") = 2
    /\ Count("guard_release") = 2

KindOfArm(a) == CASE a = ControlArm  -> "FromControl"
                  [] a = TaskArm     -> "FromTask"
                  [] a = DevtoolsArm -> "FromDevtools"
                  [] a = TimerArm    -> "TimerFired"

\* Each ready arm can be the one the wait resolves on, its source supplying
\* the first event of the batch.
AnyReadyArmCanBeFirst ==
    pc = "wait" =>
        /\ ControlArm \in ReadyArms =>
               ENABLED (SelectControl /\ sequential'[1].kind = "FromControl")
        /\ TaskArm \in ReadyArms =>
               ENABLED (SelectTask /\ sequential'[1].kind = "FromTask")
        /\ DevtoolsArm \in ReadyArms =>
               ENABLED (SelectDevtools /\ sequential'[1].kind = "FromDevtools")
        /\ TimerArm \in ReadyArms =>
               ENABLED (SelectTimer /\ sequential'[1].kind = "TimerFired")

\* The number of tasks inside the task queue: on its port, in its buffer,
\* held back.
TasksHeld(p, q, th) == Len(SelectSeq(p, NotWake)) + Len(q) + Len(th)

\* The step that resolves the wait takes from one ready source, the one
\* the first event comes from, and leaves the other three as they were.
WaitConsumesOneSource ==
    (pc = "wait" /\ pc' = "drain") =>
        LET a == log'[1].ev
        IN  /\ a \in ReadyArms
            /\ Len(sequential') = 1
            /\ sequential'[1].kind = KindOfArm(a)
            /\ control' = IF a = ControlArm THEN Tail(control) ELSE control
            /\ devtools' = IF a = DevtoolsArm THEN Tail(devtools) ELSE devtools
            /\ timer' = (timer /\ a # TimerArm)
            /\ IF a = TaskArm
               THEN TasksHeld(port', msg_queue', throttled') + 1
                        = TasksHeld(port, msg_queue, throttled)
               ELSE UNCHANGED <<port, msg_queue, throttled>>

\* C16: whatever arms are ready when the wait resolves, each of them can
\* be the one taken, and the step that resolves the wait consumes one
\* source only.
C16_AnyReadyArm ==
    /\ []AnyReadyArmCanBeFirst
    /\ [][WaitConsumesOneSource]_vars

\* The four sources are ready together while the worker waits.
C16_Witness ==
    /\ pc = "wait"
    /\ ReadyArms = {ControlArm, TaskArm, DevtoolsArm, TimerArm}

\* C17: a worker without a devtools channel never sees its devtools arm
\* ready and never resolves its wait on it, every devtools poll of its
\* drain loop reports empty, and no FromDevtools event enters a batch or
\* reaches the handler.
C17_NoDevtoolsNeverReady ==
    ~hasDevtools =>
        /\ DevtoolsArm \notin ReadyArms
        /\ Len(log) >= 1 => log[1].ev # DevtoolsArm
        /\ \A i \in Positions("poll_devtools") : ~log[i].ok
        /\ \A k \in 1..Len(sequential) : sequential[k].kind # "FromDevtools"
        /\ \A k \in 1..Len(delivered) : delivered[k].kind # "FromDevtools"

\* A worker without a devtools channel drained a batch of two, its devtools
\* poll reporting empty, and returned.
C17_Witness ==
    /\ ~hasDevtools
    /\ Returned /\ outcome = "normal"
    /\ Len(sequential) = 2
    /\ \E i \in Positions("poll_devtools") : ~log[i].ok

\* The phases follow one another: wait, drain, process, return; a return
\* is a shutdown return or a normal return, and puts the worker back into
\* the wait of the next invocation or ends its thread.
PhaseOrder ==
    /\ pc = "wait" => pc' \in {"wait", "drain"}
    /\ pc = "drain" => pc' \in {"drain", "process"}
    /\ pc = "process" =>
           \/ pc' = "process"
           \/ pc' \in {"wait", "exited"} /\ outcome' \in {"shutdown", "normal"}
    /\ pc = "exited" => pc' = "exited"

\* Past the wait, the worker always has a step it can take.
NeverBlocksAgain == pc \in {"drain", "process"} => ENABLED WorkerStep

\* C18: past its initial wait an invocation always has a next step, goes
\* through drain and process in that order without going back, and returns:
\* the worker is again and again outside an invocation's drain and process
\* phases, so whenever it is inside them it later gets out, by a shutdown
\* return or a normal return.
C18_InvocationReturns ==
    /\ []NeverBlocksAgain
    /\ [][PhaseOrder]_vars
    /\ []<>(pc \in {"wait", "exited"})

\* The worker's thread has ended after a shutdown return from a batch of
\* two, the closing flag set.
C18_Witness ==
    /\ pc = "exited"
    /\ outcome = "shutdown"
    /\ Len(sequential) = 2
    /\ Count("handle") = 2

\* C12: ScriptPort::recv panics on a WakeUp sentinel and on a DOMMessage
\* payload, gives Err(()) exactly when the channel is disconnected and Ok
\* with the message exactly when it received a common message: a malformed
\* message never comes back as a value or as an error.
C12_RecvOutcomes ==
    recvResult.tag # "none" =>
        /\ ~recvArg.ok => recvResult = [tag |-> "Err", msg |-> WakeUp]
        /\ (recvArg.ok /\ IsWakeUp(recvArg.msg)) => recvResult.tag = "panic"
        /\ (recvArg.ok /\ recvArg.msg.src = "dom") => recvResult.tag = "panic"
        /\ (recvArg.ok /\ recvArg.msg.src = "task") =>
               recvResult = [tag |-> "Ok", msg |-> recvArg.msg]
        /\ recvResult.tag = "Ok" => recvArg.ok /\ recvArg.msg.src = "task"
        /\ recvResult.tag = "Err" => ~recvArg.ok /\ receiverGone

\* A DOM message was received and the call panicked, with another message
\* still in the buffer.
C12_Witness ==
    /\ recvResult.tag = "panic"
    /\ recvArg.ok /\ recvArg.msg.src = "dom"
    /\ receiver # <<>>

\* C19: no wake is lost: when sleep is about to look at the flag and
\* wake() has run outside a wait since sleep last looked, the flag is true,
\* so that this call of sleep returns without waiting.
C19_NoWakeLost == (appPc = "sleep" /\ wokeAwake) => flag

\* Guards and slot agree on every thread, and the last call of
\* with_current_event_loop ran its closure exactly when a guard was alive.
OneGuardPerThread ==
    \A t \in Threads :
        /\ guards[t] <= 1
        /\ guards[t] = 1 <=> CURRENT_EVENT_LOOP[t] # None
        /\ lastWith[t].result # "none" =>
               /\ lastWith[t].ran <=> lastWith[t].live = 1
               /\ lastWith[t].result = "Some" <=> lastWith[t].ran
               /\ lastWith[t].result = "None" <=> ~lastWith[t].ran

\* A guard comes alive only over an empty slot, a thread panics only in
\* EventLoopGuard::new over a set slot, and a drop empties the slot.
GuardSteps ==
    \A t \in Threads :
        /\ guards'[t] > guards[t] =>
               CURRENT_EVENT_LOOP[t] = None /\ CURRENT_EVENT_LOOP'[t] # None
        /\ (threadPc[t] = "running" /\ threadPc'[t] = "panicked") =>
               CURRENT_EVENT_LOOP[t] # None /\ guards'[t] <= guards[t]
        /\ guards'[t] < guards[t] => CURRENT_EVENT_LOOP'[t] = None

\* C20: on every thread at most one EventLoopGuard is alive, and one is
\* alive exactly when the thread's slot is set; EventLoopGuard::new panics
\* when the slot is set already, dropping the guard empties the slot, and
\* with_current_event_loop runs its closure and returns Some exactly when a
\* guard is alive, and returns None without running it otherwise.
C20_OneGuardPerThread ==
    /\ []OneGuardPerThread
    /\ [][GuardSteps]_vars

\* One thread panicked creating a second guard, its first guard dropped by
\* the unwinding; the other holds a guard and ran a closure under it.
C20_Witness ==
    /\ threadPc[1] = "panicked" /\ guards[1] = 0
    /\ threadPc[2] = "running" /\ guards[2] = 1
    /\ lastWith[2].result = "Some"

=============================================================================
